---- MODULE Spec2Model ----
(***************************************************************************)
(* PathFinder: the upload / analysis state of App (src/App.tsx), the text  *)
(* chat of AnalysisView (src/components/AnalysisView.tsx) and the audio    *)
(* playback of LiveSession (src/services/geminiService.ts).                *)
(*                                                                         *)
(* The specifications of the module:                                       *)
(*   Spec      - App: file selection, processFile, analyzeDocument         *)
(*   SpecChat  - AnalysisView: chat initialisation and handleSendMessage   *)
(*   SpecAudio - LiveSession: onmessage, playAudioChunk, stopAudioPlayback *)
(*   SpecLive  - LiveSession: connect and disconnect                       *)
(*   SpecMic   - LiveSession: microphone frames of one connection          *)
(*   SpecMount - LiveAudioChat: its effects and callback refs              *)
(*   SpecPcm   - createPcmBlob on a microphone frame                       *)
(*   SpecImage - processFile: the size of the canvas an image is drawn on  *)
(* Each leaves the variables of the others at fixed values.                *)
(***************************************************************************)
EXTENDS Integers, Sequences, FiniteSets, Bags, TLC

\* ------------------------------------------------------------------ bounds
MaxFiles == 1        \* distinct documents the user holds
MaxInFlight == 2     \* handleAnalyze / performAnalysis calls awaiting a promise
MaxInits == 2        \* initChat calls awaiting createDocumentChat
MaxMessages == 3     \* length of the chat message list
MaxReceived == 3     \* server messages delivered to onmessage
MaxTime == 4         \* last value of the output context's clock
MaxCalls == 3        \* connect() and disconnect() calls on one LiveSession
MaxFrames == 3       \* microphone frames captured
MaxCallbacks == 2    \* distinct callback identities a parent passes
MaxInstances == 3    \* LiveSessions one LiveAudioChat creates
MaxSamples == 2      \* samples in one microphone frame

\* ------------------------------------------------------------------ values
Null == [null |-> TRUE]

Language == {"en", "es"}

Mime(top, sub) == [top |-> top, sub |-> sub]

\* MIME types a browser may hand over in a File (drop is not filtered by accept=)
Types ==
  { Mime("application", "pdf"), Mime("image", "png"), Mime("image", "jpeg"),
    Mime("image", "jpg"), Mime("image", "webp"), Mime("image", "gif"),
    Mime("text", "plain") }

\* a File: the document it holds and the MIME type it is stored in; document 1
\* exists in every type, the further documents are PDFs
Files ==
  { [name |-> 1, type |-> t] : t \in Types }
    \cup { [name |-> n, type |-> Mime("application", "pdf")] : n \in 2..MaxFiles }

\* what the browser does while processFile runs
ProcessEnv == {"ok", "readerError", "imgError", "noCanvasContext"}

\* what generateContent does for one analyzeDocument call
Responses == {"apiError", "emptyText", "badJson", "json"}

Text(key, lang) == [text |-> key, lang |-> lang]

\* an entry of the translations shown by App, whatever language it is read in
AppText(key) == [text |-> key]

\* ------------------------------------------------------------------- state
VARIABLES
  file,          \* App: useState<File | null>
  fileData,      \* App: useState<{base64, mimeType} | null>
  isAnalyzing,   \* App: useState(false)
  result,        \* App: useState<AnalysisResult | null>
  error,         \* App: useState<string | null>
  language,      \* App: useState<Language>('en')
  processing,    \* handleAnalyze calls suspended at `await processFile(file)`
  analyzing,     \* performAnalysis calls suspended at `await analyzeDocument(...)`
  blindToggle,   \* history: toggleLanguage ran while no analysed document was held
  chatSession,          \* AnalysisView: useState<Chat | null>
  messages,             \* AnalysisView: useState<ChatMessage[]>
  input,                \* AnalysisView: useState('')
  isSending,            \* AnalysisView: useState(false)
  chatInitializedRef,   \* AnalysisView: useRef(false)
  currentLangRef,       \* AnalysisView: useRef(language)
  initPending,          \* initChat calls suspended at `await createDocumentChat(...)`
  sendPending,          \* handleSendMessage call suspended at `await chatSession.sendMessage`
  lastCall,             \* history: the latest handleSendMessage call and whether it sent
  nextStartTime,        \* LiveSession: private nextStartTime = 0
  outputAudioContext,   \* LiveSession: AudioContext | null
  currentTime,          \* outputAudioContext.currentTime, in frames of the output rate
  sources,              \* LiveSession: Set<AudioBufferSourceNode> (node ids)
  nodes,                \* the AudioBufferSourceNodes created so far, in creation order
  microtasks,           \* playAudioChunk calls suspended at `await decodeAudioData(...)`
  transcripts,          \* the onTranscript calls made by the latest onmessage
  received,             \* number of server messages handled by onmessage
  stoppedSinceStart,    \* history: stopAudioPlayback ran after the latest source.start()
  lastInterrupted,      \* history: the latest message carried serverContent.interrupted
  apiKey,               \* process.env.API_KEY is set
  isConnecting,         \* LiveSession: private isConnecting = false
  session,              \* LiveSession: the sessionPromise, named by its connect attempt
  stream,               \* LiveSession: MediaStream | null, named by its connect attempt
  inputAudioContext,    \* LiveSession: AudioContext | null
  inputNode,            \* LiveSession: ScriptProcessorNode | null
  contextState,         \* browser: AudioContext.state of every context created
  liveStreams,          \* browser: the MediaStreams whose tracks have not been stopped
  sessionState,         \* endpoint: the state of every session ai.live.connect started
  resolved,             \* the sessionPromises that have resolved
  opened,               \* history: the sessions whose onopen callback has run
  connects,             \* connect calls suspended at an await
  disconnects,          \* disconnect calls suspended at an await
  connectCalls,         \* connect calls that got past the first guard
  disconnectCalls,      \* disconnect calls
  onErrorCalls,         \* calls of the onError callback
  isConnected,          \* LiveAudioChat: useState(false), set by onConnect / onDisconnect
  captured,             \* microphone frames handed to onaudioprocess
  reactions,            \* `.then` reactions waiting on a pending sessionPromise
  sent,                 \* the sendRealtimeInput calls, in call order
  disconnectedWhileConnecting,  \* history: disconnect ran during the latest connect
  mounted,              \* LiveAudioChat is mounted
  onTranscript,         \* LiveAudioChat prop: the callback of the latest render
  onClose,              \* LiveAudioChat prop: the callback of the latest render
  systemContext,        \* LiveAudioChat prop
  onTranscriptRef,      \* LiveAudioChat: useRef(onTranscript)
  onCloseRef,           \* LiveAudioChat: useRef(onClose)
  pendingEffects,       \* effects of the latest commit that have not run yet
  instances,            \* the LiveSessions the session effect has created, in order
  lastDelivery,         \* history: the latest transcript and the callback it went to
  inputData,            \* onaudioprocess: the Float32Array handed to createPcmBlob
  pcmBlob,              \* onaudioprocess: what createPcmBlob returned
  img,                  \* processFile: the Image being loaded (width, height)
  processed             \* processFile: the canvas it drew and the value it resolved

appVars == <<file, fileData, isAnalyzing, result, error, language,
             processing, analyzing, blindToggle>>

chatVars == <<chatSession, messages, input, isSending, chatInitializedRef,
              currentLangRef, initPending, sendPending, lastCall>>

audioVars == <<nextStartTime, outputAudioContext, currentTime, sources, nodes,
               microtasks, transcripts, received, stoppedSinceStart,
               lastInterrupted>>

\* the play-back part of a LiveSession, all but outputAudioContext
playbackVars == <<nextStartTime, currentTime, sources, nodes, microtasks, transcripts,
                  received, stoppedSinceStart, lastInterrupted>>

liveVars == <<apiKey, isConnecting, session, stream, inputAudioContext, inputNode,
              contextState, liveStreams, sessionState, resolved, opened, connects,
              disconnects, connectCalls, disconnectCalls, onErrorCalls, isConnected, captured,
              reactions, sent, disconnectedWhileConnecting>>

mountVars == <<mounted, onTranscript, onClose, systemContext, onTranscriptRef,
               onCloseRef, pendingEffects, instances, lastDelivery>>

\* the buffers createPcmBlob and the image branch of processFile work on
mediaVars == <<inputData, pcmBlob, img, processed>>

vars == <<appVars, chatVars, audioVars, liveVars, mountVars, mediaVars>>

\* ----------------------------------------------------------- pure helpers
\* the calls suspended at an await form a bag: any of them may resume next
Suspend(calls, c) == calls (+) SetToBag({c})

Resume(calls, c) == calls (-) SetToBag({c})

InFlight == BagCardinality(processing) + BagCardinality(analyzing)

\* processFile: PDF is passed through, an image is drawn on a canvas and
\* re-encoded as JPEG, anything else is rejected
processFile(f, env) ==
  IF f.type = Mime("application", "pdf")
  THEN IF env = "readerError"
       THEN [ok |-> FALSE]
       ELSE [ok |-> TRUE,
             value |-> [base64 |-> [of |-> f.name, enc |-> "raw"],
                        mimeType |-> f.type]]
  ELSE IF f.type.top = "image"
  THEN IF env = "ok"
       THEN [ok |-> TRUE,
             value |-> [base64 |-> [of |-> f.name, enc |-> "jpeg"],
                        mimeType |-> Mime("image", "jpeg")]]
       ELSE [ok |-> FALSE]
  ELSE [ok |-> FALSE]

\* analyzeDocument: the parsed JSON of the response, or a rejection
analyzeDocument(data, lang, response) ==
  IF response = "apiError" THEN [ok |-> FALSE]
  ELSE IF response = "emptyText" THEN [ok |-> FALSE]
  ELSE IF response = "badJson" THEN [ok |-> FALSE]
  ELSE [ok |-> TRUE, value |-> [doc |-> data, lang |-> lang]]

\* mutant: any image/* type is accepted (the test processFile applies)
validTypes_anyImage == { t \in Types : t = Mime("application", "pdf") \/ t.top = "image" }

validTypes ==
  { Mime("application", "pdf"), Mime("image", "png"), Mime("image", "jpeg"),
    Mime("image", "jpg"), Mime("image", "webp") }

\* validateFile: TRUE, or FALSE together with setError / setFile(null)
validateFile(selectedFile) == selectedFile.type \in validTypes

\* ------------------------------------------------------------ render tree
AnalysisViewRendered == result /= Null /\ fileData /= Null

UploadViewRendered == result = Null

\* the three branches inside the upload area
UploadBody ==
  IF isAnalyzing THEN "loader" ELSE IF file /= Null THEN "fileCard" ELSE "prompt"

\* the only place that renders the text of `error`
ErrorTextRendered == UploadViewRendered /\ UploadBody = "prompt" /\ error /= Null

\* ------------------------------------------------------------ App actions
\* performAnalysis up to its await: the state it sets and the call it suspends
performAnalysisStart(data, lang, queue) ==
  /\ isAnalyzing' = TRUE
  /\ error' = Null
  /\ analyzing' = Suspend(queue, [data |-> data, lang |-> lang])

\* mutant: a failed analysis shows a placeholder result
performAnalysisSettle_placeholder(outcome, prevResult, prevError) ==
  IF outcome.ok
  THEN [result |-> outcome.value, error |-> prevError, isAnalyzing |-> FALSE]
  ELSE [result |-> [doc |-> Null, lang |-> "en"], error |-> AppText("errorGeneric"),
        isAnalyzing |-> FALSE]

\* mutant: a failed analysis clears the previous result
performAnalysisSettle_clears(outcome, prevResult, prevError) ==
  IF outcome.ok
  THEN [result |-> outcome.value, error |-> prevError, isAnalyzing |-> FALSE]
  ELSE [result |-> Null, error |-> AppText("errorGeneric"), isAnalyzing |-> FALSE]

\* what the catch / finally of performAnalysis leave behind
performAnalysisSettle(outcome, prevResult, prevError) ==
  IF outcome.ok
  THEN [result |-> outcome.value, error |-> prevError, isAnalyzing |-> FALSE]
  ELSE [result |-> prevResult, error |-> AppText("errorGeneric"), isAnalyzing |-> FALSE]

\* handleFileChange / handleDrop share this body
selectFile(f) ==
  /\ IF validateFile(f)
     THEN file' = f /\ error' = Null
     ELSE file' = Null
          /\ error' = AppText("invalidType")
  /\ UNCHANGED <<fileData, isAnalyzing, result, language, processing, analyzing,
                 blindToggle>>

\* onChange of the two file inputs (disabled while analysing)
handleFileChange(f) ==
  /\ UploadViewRendered
  /\ ~isAnalyzing
  /\ selectFile(f)

\* onDrop of the upload area
handleDrop(f) ==
  /\ UploadViewRendered
  /\ selectFile(f)

\* the "Remove file" button of the file card
removeFile ==
  /\ UploadViewRendered /\ UploadBody = "fileCard"
  /\ file' = Null
  /\ error' = Null
  /\ UNCHANGED <<fileData, isAnalyzing, result, language, processing, analyzing,
                 blindToggle>>

\* the "Analyze Now" button of the file card: handleAnalyze up to its first await
handleAnalyze ==
  /\ UploadViewRendered /\ UploadBody = "fileCard"
  /\ InFlight < MaxInFlight
  /\ IF fileData = Null
     THEN /\ processing' = Suspend(processing, [file |-> file, lang |-> language])
          /\ UNCHANGED <<isAnalyzing, error, analyzing>>
     ELSE /\ performAnalysisStart(fileData, language, analyzing)
          /\ UNCHANGED processing
  /\ UNCHANGED <<file, fileData, result, language, blindToggle>>

\* mutant: a rejected processFile is reported and the analysis is started anyway
processFileSettle_continues(call, env) ==
  /\ BagIn(call, processing)
  /\ LET out == processFile(call.file, env)
     IN /\ processing' = Resume(processing, call)
        /\ IF out.ok
           THEN /\ fileData' = out.value
                /\ performAnalysisStart(out.value, call.lang, analyzing)
           ELSE /\ error' = AppText("processFailed")
                /\ isAnalyzing' = TRUE
                /\ analyzing' = Suspend(analyzing,
                     [data |-> [base64 |-> [of |-> call.file.name, enc |-> "raw"],
                                mimeType |-> call.file.type],
                      lang |-> call.lang])
                /\ UNCHANGED fileData
  /\ UNCHANGED <<file, result, language, blindToggle>>

\* handleAnalyze resumes after `await processFile(file)`
processFileSettle(call, env) ==
  /\ BagIn(call, processing)
  /\ LET out == processFile(call.file, env)
     IN /\ processing' = Resume(processing, call)
        /\ IF out.ok
           THEN /\ fileData' = out.value
                /\ performAnalysisStart(out.value, call.lang, analyzing)
           ELSE /\ error' = AppText("processFailed")
                /\ UNCHANGED <<fileData, isAnalyzing, analyzing>>
  /\ UNCHANGED <<file, result, language, blindToggle>>

\* performAnalysis resumes after `await analyzeDocument(...)`
analyzeDocumentSettle(call, response) ==
  /\ BagIn(call, analyzing)
  /\ LET out == analyzeDocument(call.data, call.lang, response)
         s == performAnalysisSettle(out, result, error)
     IN /\ analyzing' = Resume(analyzing, call)
        /\ result' = s.result
        /\ error' = s.error
        /\ isAnalyzing' = s.isAnalyzing
  /\ UNCHANGED <<file, fileData, language, processing, blindToggle>>

\* the language button of the header (always rendered, never disabled)
toggleLanguage ==
  LET newLang == IF language = "en" THEN "es" ELSE "en"
  IN /\ language' = newLang
     /\ IF result /= Null /\ fileData /= Null
        THEN /\ InFlight < MaxInFlight
             /\ performAnalysisStart(fileData, newLang, analyzing)
             /\ UNCHANGED blindToggle
        ELSE /\ blindToggle' = TRUE
             /\ UNCHANGED <<isAnalyzing, error, analyzing>>
     /\ UNCHANGED <<file, fileData, result, processing>>

\* onReset of AnalysisView ("Upload a different document")
handleReset ==
  /\ AnalysisViewRendered
  /\ file' = Null
  /\ fileData' = Null
  /\ result' = Null
  /\ error' = Null
  /\ UNCHANGED <<isAnalyzing, language, processing, analyzing, blindToggle>>

AppInit ==
  /\ file = Null
  /\ fileData = Null
  /\ isAnalyzing = FALSE
  /\ result = Null
  /\ error = Null
  /\ language = "en"
  /\ processing = EmptyBag
  /\ analyzing = EmptyBag
  /\ blindToggle = FALSE


\* ------------------------------------------------- AnalysisView: text chat
\* what chat.sendMessage does while createDocumentChat seeds the chat
SeedOutcomes == {"ok", "reject"}

\* what chatSession.sendMessage returns to handleSendMessage
SendOutcomes == {"text", "safety", "recitation", "emptyCandidate", "noCandidate", "reject"}

\* values of the question field: empty, white space only, a question
Inputs == {"", " ", "q"}

\* String.prototype.trim on the values of Inputs
trim(s) == IF s = " " THEN "" ELSE s

Msg(role, text, isError) == [role |-> role, text |-> text, isError |-> isError]

\* createDocumentChat: the seeded Chat, or the rejection of the seeding sendMessage
createDocumentChat(data, lang, outcome) ==
  IF outcome = "ok"
  THEN [ok |-> TRUE, value |-> [doc |-> data, lang |-> lang]]
  ELSE [ok |-> FALSE]

\* the text handleSendMessage derives from a response
aiText(outcome, chat) ==
  IF outcome = "text" THEN Text("reply", chat.lang)
  ELSE IF outcome = "safety" THEN Text("safetyFallback", "en")
  ELSE IF outcome = "recitation" THEN Text("recitationFallback", "en")
  ELSE IF outcome = "emptyCandidate" THEN Text("emptyTextFallback", "en")
  ELSE Text("noCandidateFallback", "en")

\* the component is not mounted: its state does not exist
ChatUnmounted ==
  /\ chatSession = Null
  /\ messages = <<>>
  /\ input = ""
  /\ isSending = FALSE
  /\ chatInitializedRef = FALSE
  /\ currentLangRef = "en"
  /\ initPending = EmptyBag
  /\ sendPending = Null
  /\ lastCall = Null

\* initChat up to its await
initChat(lang) ==
  /\ messages' = <<Msg("model", Text("chatWaiting", lang), FALSE)>>
  /\ initPending' = Suspend(initPending, [data |-> fileData, lang |-> lang, t |-> lang])

\* the chat-init effect, run after a render with the new props
chatInitEffect ==
  IF chatInitializedRef /\ currentLangRef = language'
  THEN UNCHANGED chatVars
  ELSE /\ chatInitializedRef' = TRUE
       /\ currentLangRef' = language'
       /\ initChat(language')
       /\ UNCHANGED <<chatSession, input, isSending, sendPending, lastCall>>

\* initChat resumes after `await createDocumentChat(...)`
createDocumentChatSettle(call, outcome) ==
  /\ BagIn(call, initPending)
  /\ LET out == createDocumentChat(call.data, call.lang, outcome)
     IN /\ initPending' = Resume(initPending, call)
        /\ IF out.ok
           THEN /\ chatSession' = out.value
                /\ messages' = <<Msg("model", Text("chatReady", call.t), FALSE)>>
           ELSE /\ messages' = <<Msg("model", Text("chatError", call.t), TRUE)>>
                /\ UNCHANGED chatSession
  /\ UNCHANGED <<input, isSending, chatInitializedRef, currentLangRef, sendPending,
                 lastCall>>
  /\ UNCHANGED <<appVars, audioVars, liveVars, mountVars, mediaVars>>

\* onChange of the question field (disabled while sending)
setInput(v) ==
  /\ ~isSending
  /\ input' = v
  /\ UNCHANGED <<chatSession, messages, isSending, chatInitializedRef,
                 currentLangRef, initPending, sendPending, lastCall>>
  /\ UNCHANGED <<appVars, audioVars, liveVars, mountVars, mediaVars>>

ChatErrorShown == \E k \in 1..Len(messages) : messages[k].text.text = "chatError"

\* the early return of handleSendMessage
handleSendMessageAccepts(textToSend) ==
  ~(trim(textToSend) = "" \/ chatSession = Null \/ isSending)

\* Enter in the question field (or the send button): handleSendMessage up to its await
handleSendMessage ==
  /\ ~isSending
  /\ Len(messages) < MaxMessages
  /\ LET textToSend == input
     IN /\ lastCall' = [text |-> textToSend, afterChatError |-> ChatErrorShown,
                        sent |-> handleSendMessageAccepts(textToSend)]
        /\ IF handleSendMessageAccepts(textToSend)
           THEN /\ messages' = Append(messages, Msg("user", Text(textToSend, "user"), FALSE))
                /\ input' = ""
                /\ isSending' = TRUE
                /\ sendPending' = [session |-> chatSession, message |-> textToSend]
           ELSE UNCHANGED <<messages, input, isSending, sendPending>>
  /\ UNCHANGED <<chatSession, chatInitializedRef, currentLangRef, initPending>>
  /\ UNCHANGED <<appVars, audioVars, liveVars, mountVars, mediaVars>>

\* handleSendMessage resumes after `await chatSession.sendMessage(...)`
sendMessageSettle(outcome) ==
  /\ sendPending /= Null
  /\ IF outcome = "reject"
     THEN messages' = Append(messages, Msg("model", Text("chatConnectError", language), TRUE))
     ELSE messages' = Append(messages, Msg("model", aiText(outcome, sendPending.session), FALSE))
  /\ isSending' = FALSE
  /\ sendPending' = Null
  /\ UNCHANGED <<chatSession, input, chatInitializedRef, currentLangRef, initPending,
                 lastCall>>
  /\ UNCHANGED <<appVars, audioVars, liveVars, mountVars, mediaVars>>

\* ------------------------------------------- LiveSession: audio playback
\* inlineData.data of a server message: what atob and Int16Array make of it
\*   bytes = 0 is the empty string; valid = FALSE is text atob rejects;
\*   3 bytes do not fill whole 16-bit samples; 4 bytes are a chunk of 2 frames
AudioPayloads ==
  { [valid |-> TRUE, bytes |-> 0], [valid |-> FALSE, bytes |-> 2],
    [valid |-> TRUE, bytes |-> 3], [valid |-> TRUE, bytes |-> 4] }

\* the parts of a LiveServerMessage that onmessage reads
ServerMessages ==
  [ audio : AudioPayloads \cup {Null},
    outputTranscription : BOOLEAN,
    inputTranscription : BOOLEAN,
    interrupted : BOOLEAN ]

\* decodeAudioData: atob, Int16Array over the bytes, one frame per 16-bit sample;
\* duration is counted in frames of the 24 kHz output rate
decodeAudioData(payload) ==
  IF ~payload.valid THEN [ok |-> FALSE]
  ELSE IF payload.bytes % 2 /= 0 THEN [ok |-> FALSE]
  ELSE [ok |-> TRUE, value |-> [frameCount |-> payload.bytes \div 2,
                                duration |-> payload.bytes \div 2]]

\* mutant: the start time is not synchronised with the context's clock
syncStartTime_unsynced(nst, now) == nst

\* Math.max(this.nextStartTime, this.outputAudioContext.currentTime)
syncStartTime(nst, now) == IF nst > now THEN nst ELSE now

\* `if (base64Audio && this.outputAudioContext)`
playsAudio(m) ==
  m.audio /= Null /\ ~(m.audio.valid /\ m.audio.bytes = 0) /\ outputAudioContext /= Null

\* the contexts connect attempt a creates: 16 kHz for the microphone, 24 kHz
\* for play-back
InputContext(a) == [sampleRate |-> 16000, of |-> a]

OutputContext(a) == [sampleRate |-> 24000, of |-> a]

\* the MediaStream getUserMedia hands to connect attempt a
MediaStream(a) == [tracks |-> a]

\* the promise ai.live.connect returns to connect attempt a
SessionPromise(a) == [promise |-> a]

\* a LiveSession whose connection has opened and that has received nothing yet
AudioIdle ==
  /\ nextStartTime = 0
  /\ outputAudioContext = OutputContext(1)
  /\ currentTime = 0
  /\ sources = {}
  /\ nodes = <<>>
  /\ microtasks = <<>>
  /\ transcripts = <<>>
  /\ received = 0
  /\ stoppedSinceStart = FALSE
  /\ lastInterrupted = FALSE

\* a node is audible from max(when, time of start()) for its duration unless stopped
NodeBegin(n) == IF n.when > n.at THEN n.when ELSE n.at

NodeEnd(n) == NodeBegin(n) + n.duration

\* onmessage: the synchronous part of playAudioChunk, the transcripts, and
\* stopAudioPlayback; the decode continues in a microtask of the same task
onmessage(m) ==
  /\ microtasks = <<>>
  /\ received < MaxReceived
  /\ received' = received + 1
  /\ microtasks' =
       IF playsAudio(m)
       THEN <<[audio |-> m.audio, arrived |-> currentTime,
               chained |-> ~stoppedSinceStart, interrupted |-> m.interrupted]>>
       ELSE <<>>
  /\ transcripts' =
       (IF m.outputTranscription THEN <<"model">> ELSE <<>>)
         \o (IF m.inputTranscription THEN <<"user">> ELSE <<>>)
  /\ IF m.interrupted
     THEN /\ nodes' = [k \in 1..Len(nodes) |->
                         IF k \in sources THEN [nodes[k] EXCEPT !.stopped = TRUE]
                                          ELSE nodes[k]]
          /\ sources' = {}
          /\ nextStartTime' = 0
          /\ stoppedSinceStart' = TRUE
     ELSE /\ nextStartTime' =
               IF playsAudio(m) THEN syncStartTime(nextStartTime, currentTime)
                                ELSE nextStartTime
          /\ UNCHANGED <<nodes, sources, stoppedSinceStart>>
  /\ lastInterrupted' = m.interrupted
  /\ UNCHANGED <<outputAudioContext, currentTime>>
  /\ UNCHANGED <<appVars, chatVars, liveVars, mountVars, mediaVars>>

\* playAudioChunk resumes after `await decodeAudioData(...)`
playAudioChunkResume ==
  /\ microtasks /= <<>>
  /\ LET task == Head(microtasks)
         out == decodeAudioData(task.audio)
     IN /\ microtasks' = Tail(microtasks)
        /\ IF out.ok
           THEN /\ nodes' = Append(nodes,
                     [when |-> nextStartTime, at |-> currentTime,
                      duration |-> out.value.duration,
                      stopped |-> FALSE, ended |-> FALSE,
                      arrived |-> task.arrived, chained |-> task.chained,
                      interrupted |-> task.interrupted])
                /\ nextStartTime' = nextStartTime + out.value.duration
                /\ sources' = sources \cup {Len(nodes) + 1}
                /\ stoppedSinceStart' = FALSE
           ELSE UNCHANGED <<nodes, nextStartTime, sources, stoppedSinceStart>>
  /\ UNCHANGED <<outputAudioContext, currentTime, transcripts, received,
                 lastInterrupted>>
  /\ UNCHANGED <<appVars, chatVars, liveVars, mountVars, mediaVars>>

\* the 'ended' listener of a source: it has played to its end or was stopped
sourceEnded(k) ==
  /\ microtasks = <<>>
  /\ k \in 1..Len(nodes)
  /\ ~nodes[k].ended
  /\ nodes[k].stopped \/ NodeEnd(nodes[k]) <= currentTime
  /\ nodes' = [nodes EXCEPT ![k].ended = TRUE]
  /\ sources' = sources \ {k}
  /\ UNCHANGED <<nextStartTime, outputAudioContext, currentTime, microtasks,
                 transcripts, received, stoppedSinceStart, lastInterrupted>>
  /\ UNCHANGED <<appVars, chatVars, liveVars, mountVars, mediaVars>>

\* the audio clock advances between tasks
clockAdvances ==
  /\ microtasks = <<>>
  /\ currentTime < MaxTime
  /\ currentTime' = currentTime + 1
  /\ UNCHANGED <<nextStartTime, outputAudioContext, sources, nodes, microtasks,
                 transcripts, received, stoppedSinceStart, lastInterrupted>>
  /\ UNCHANGED <<appVars, chatVars, liveVars, mountVars, mediaVars>>

\* --------------------------------------- LiveSession: connection lifecycle
\* a LiveSession right after `new LiveSession(...)`: the field initialisers,
\* and a browser that holds no context, stream or session for it
LiveConstructed ==
  /\ isConnecting = FALSE
  /\ session = Null
  /\ stream = Null
  /\ inputAudioContext = Null
  /\ inputNode = Null
  /\ contextState = <<>>
  /\ liveStreams = {}
  /\ sessionState = <<>>
  /\ resolved = {}
  /\ opened = {}
  /\ connects = {}
  /\ disconnects = EmptyBag
  /\ connectCalls = 0
  /\ disconnectCalls = 0
  /\ onErrorCalls = 0
  /\ isConnected = FALSE
  /\ captured = 0
  /\ reactions = <<>>
  /\ sent = <<>>
  /\ disconnectedWhileConnecting = FALSE

\* a LiveSession whose first connect() has gone through and whose session is open
LiveOpened ==
  /\ apiKey = TRUE
  /\ isConnecting = FALSE
  /\ session = SessionPromise(1)
  /\ stream = MediaStream(1)
  /\ inputAudioContext = InputContext(1)
  /\ inputNode = [session |-> 1, ctx |-> InputContext(1), stream |-> MediaStream(1)]
  /\ contextState = (InputContext(1) :> "running") @@ (OutputContext(1) :> "running")
  /\ liveStreams = {MediaStream(1)}
  /\ sessionState = (1 :> "open")
  /\ resolved = {1}
  /\ opened = {1}
  /\ connects = {}
  /\ disconnects = EmptyBag
  /\ connectCalls = 1
  /\ disconnectCalls = 0
  /\ onErrorCalls = 0
  /\ isConnected = TRUE
  /\ captured = 0
  /\ reactions = <<>>
  /\ sent = <<>>
  /\ disconnectedWhileConnecting = FALSE

\* the frame of the variables the connection steps never touch
LiveFrame == UNCHANGED <<appVars, chatVars, playbackVars, apiKey, mountVars, mediaVars>>

\* a connect attempt is awaiting, or its session is being opened
Connecting ==
  connects /= {} \/ \E a \in DOMAIN sessionState : sessionState[a] = "connecting"

\* mutant: isConnecting is set before the API key is looked at
connect_flagFirst ==
  /\ connectCalls + disconnectCalls < MaxCalls
  /\ IF isConnecting \/ session /= Null
     THEN UNCHANGED liveVars /\ UNCHANGED outputAudioContext
     ELSE /\ isConnecting' = TRUE
          /\ onErrorCalls' = onErrorCalls + 1
          /\ connectCalls' = connectCalls + 1
          /\ UNCHANGED <<session, stream, inputAudioContext, inputNode,
                         contextState, liveStreams, sessionState, resolved, opened,
                         connects, disconnects, disconnectCalls, isConnected, captured,
                         reactions, sent, disconnectedWhileConnecting,
                         outputAudioContext>>
  /\ LiveFrame

\* connect(): the two guards, then everything up to the first await
connect ==
  /\ connectCalls + disconnectCalls < MaxCalls
  /\ IF isConnecting \/ session /= Null
     THEN UNCHANGED liveVars /\ UNCHANGED outputAudioContext
     ELSE IF ~apiKey
     THEN /\ onErrorCalls' = onErrorCalls + 1
          /\ connectCalls' = connectCalls + 1
          /\ UNCHANGED <<isConnecting, session, stream, inputAudioContext, inputNode,
                         contextState, liveStreams, sessionState, resolved, opened, connects,
                         disconnects, disconnectCalls, isConnected, captured,
                         reactions, sent, disconnectedWhileConnecting,
                         outputAudioContext>>
     ELSE LET a == connectCalls + 1
          IN /\ connectCalls' = a
             /\ isConnecting' = TRUE
             /\ inputAudioContext' = InputContext(a)
             /\ outputAudioContext' = OutputContext(a)
             /\ disconnectedWhileConnecting' = FALSE
             /\ \E st \in {"suspended", "running"} :
                  /\ contextState' =
                       (InputContext(a) :> st) @@ (OutputContext(a) :> st) @@ contextState
                  /\ connects' = connects \cup
                       {[attempt |-> a,
                         pc |-> IF st = "suspended" THEN "resumeInput" ELSE "getUserMedia",
                         ctx |-> InputContext(a)]}
             /\ UNCHANGED <<session, stream, inputNode, liveStreams, sessionState,
                            resolved, opened, disconnects, disconnectCalls, onErrorCalls,
                            isConnected, captured, reactions, sent>>
  /\ LiveFrame

\* connect resumes after `await this.inputAudioContext.resume()`
connectAfterResumeInput(c) ==
  /\ c \in connects /\ c.pc = "resumeInput"
  /\ IF contextState[c.ctx] = "closed"
     THEN \* resume() rejected: connect throws outside its try
          /\ connects' = connects \ {c}
          /\ UNCHANGED contextState
     ELSE /\ contextState' = [contextState EXCEPT ![c.ctx] = "running"]
          /\ IF outputAudioContext = Null
             THEN \* `this.outputAudioContext.state` throws a TypeError
                  connects' = connects \ {c}
             ELSE IF contextState[outputAudioContext] = "suspended"
             THEN connects' = (connects \ {c}) \cup
                    {[attempt |-> c.attempt, pc |-> "resumeOutput",
                      ctx |-> outputAudioContext]}
             ELSE connects' = (connects \ {c}) \cup
                    {[attempt |-> c.attempt, pc |-> "getUserMedia", ctx |-> c.ctx]}
  /\ UNCHANGED <<isConnecting, session, stream, inputAudioContext, inputNode,
                 liveStreams, sessionState, resolved, opened, disconnects, connectCalls,
                 disconnectCalls, onErrorCalls, isConnected, captured, reactions, sent,
                 disconnectedWhileConnecting, outputAudioContext>>
  /\ LiveFrame

\* connect resumes after `await this.outputAudioContext.resume()`
connectAfterResumeOutput(c) ==
  /\ c \in connects /\ c.pc = "resumeOutput"
  /\ IF contextState[c.ctx] = "closed"
     THEN /\ connects' = connects \ {c}
          /\ UNCHANGED contextState
     ELSE /\ contextState' = [contextState EXCEPT ![c.ctx] = "running"]
          /\ connects' = (connects \ {c}) \cup
               {[attempt |-> c.attempt, pc |-> "getUserMedia", ctx |-> c.ctx]}
  /\ UNCHANGED <<isConnecting, session, stream, inputAudioContext, inputNode,
                 liveStreams, sessionState, resolved, opened, disconnects, connectCalls,
                 disconnectCalls, onErrorCalls, isConnected, captured, reactions, sent,
                 disconnectedWhileConnecting, outputAudioContext>>
  /\ LiveFrame

\* connect resumes after `await getUserMedia(...)`: ai.live.connect and
\* `this.session = sessionPromise`, or the catch
connectAfterGetUserMedia(c, granted) ==
  /\ c \in connects /\ c.pc = "getUserMedia"
  /\ connects' = connects \ {c}
  /\ IF granted
     THEN /\ stream' = MediaStream(c.attempt)
          /\ liveStreams' = liveStreams \cup {MediaStream(c.attempt)}
          /\ sessionState' = (c.attempt :> "connecting") @@ sessionState
          /\ session' = SessionPromise(c.attempt)
          /\ UNCHANGED <<isConnecting, onErrorCalls>>
     ELSE /\ isConnecting' = FALSE
          /\ onErrorCalls' = onErrorCalls + 1
          /\ UNCHANGED <<stream, liveStreams, sessionState, session>>
  /\ UNCHANGED <<inputAudioContext, inputNode, contextState, resolved, opened, disconnects,
                 connectCalls, disconnectCalls, isConnected, captured, reactions, sent,
                 disconnectedWhileConnecting, outputAudioContext>>
  /\ LiveFrame

\* startAudioInput: the script processor wired to the stream and the promise
startAudioInput(a) ==
  IF inputAudioContext = Null \/ stream = Null
  THEN UNCHANGED inputNode
  ELSE inputNode' = [session |-> a, ctx |-> inputAudioContext, stream |-> stream]

\* callbacks.onopen of session a
onopen(a) ==
  /\ a \in DOMAIN sessionState /\ sessionState[a] = "connecting"
  /\ sessionState' = [sessionState EXCEPT ![a] = "open"]
  /\ isConnecting' = FALSE
  /\ isConnected' = TRUE
  /\ opened' = opened \cup {a}
  /\ startAudioInput(a)
  /\ UNCHANGED <<session, stream, inputAudioContext, contextState, liveStreams,
                 resolved, connects, disconnects, connectCalls, disconnectCalls,
                 onErrorCalls, captured, reactions, sent, disconnectedWhileConnecting,
                 outputAudioContext>>
  /\ LiveFrame

\* callbacks.onerror of session a: the socket failed and is closing
onerror(a) ==
  /\ a \in DOMAIN sessionState /\ sessionState[a] \in {"connecting", "open"}
  /\ sessionState' = [sessionState EXCEPT ![a] = "closing"]
  /\ isConnecting' = FALSE
  /\ onErrorCalls' = onErrorCalls + 1
  /\ UNCHANGED <<session, stream, inputAudioContext, inputNode, contextState,
                 liveStreams, resolved, opened, connects, disconnects, connectCalls,
                 disconnectCalls, isConnected, captured, reactions, sent,
                 disconnectedWhileConnecting, outputAudioContext>>
  /\ LiveFrame

\* callbacks.onclose of session a: closed by the endpoint, after an error, or
\* after close()
onclose(a) ==
  /\ a \in DOMAIN sessionState /\ sessionState[a] \in {"connecting", "open", "closing"}
  /\ sessionState' = [sessionState EXCEPT ![a] = "closed"]
  /\ isConnecting' = FALSE
  /\ isConnected' = FALSE
  /\ UNCHANGED <<session, stream, inputAudioContext, inputNode, contextState,
                 liveStreams, resolved, opened, connects, disconnects, connectCalls,
                 disconnectCalls, onErrorCalls, captured, reactions, sent,
                 disconnectedWhileConnecting, outputAudioContext>>
  /\ LiveFrame

\* a disconnect call suspended at an await; s is the promise it awaits, if any
Awaiting(pc, s) == [pc |-> pc, s |-> s]

\* disconnect from `if (this.outputAudioContext)` to its next await or its end;
\* close() of a context that is already closed rejects and ends the call
disconnectOutput(pending) ==
  /\ IF outputAudioContext = Null
     THEN /\ isConnected' = FALSE
          /\ disconnects' = pending
          /\ UNCHANGED contextState
     ELSE IF contextState[outputAudioContext] = "closed"
     THEN /\ disconnects' = pending
          /\ UNCHANGED <<contextState, isConnected>>
     ELSE /\ contextState' = [contextState EXCEPT ![outputAudioContext] = "closed"]
          /\ disconnects' = Suspend(pending, Awaiting("closeOutput", Null))
          /\ UNCHANGED isConnected
  /\ UNCHANGED outputAudioContext

\* disconnect from `if (this.inputAudioContext)` to its next await or its end
disconnectInput(pending) ==
  IF inputAudioContext = Null
  THEN /\ disconnectOutput(pending)
       /\ UNCHANGED inputAudioContext
  ELSE /\ IF contextState[inputAudioContext] = "closed"
          THEN /\ disconnects' = pending
               /\ UNCHANGED contextState
          ELSE /\ contextState' = [contextState EXCEPT ![inputAudioContext] = "closed"]
               /\ disconnects' = Suspend(pending, Awaiting("closeInput", Null))
       /\ UNCHANGED <<inputAudioContext, outputAudioContext, isConnected>>

\* disconnect from `if (this.inputNode)` to its next await or its end
disconnectTeardown(pending) ==
  /\ inputNode' = Null
  /\ stream' = Null
  /\ liveStreams' = IF stream = Null THEN liveStreams ELSE liveStreams \ {stream}
  /\ disconnectInput(pending)

\* disconnect(): everything up to its first await
disconnect ==
  /\ connectCalls + disconnectCalls < MaxCalls
  /\ disconnectCalls' = disconnectCalls + 1
  /\ isConnecting' = FALSE
  /\ disconnectedWhileConnecting' = (disconnectedWhileConnecting \/ Connecting)
  /\ IF session /= Null
     THEN /\ disconnects' = Suspend(disconnects, Awaiting("session", session))
          /\ UNCHANGED <<inputNode, stream, liveStreams, inputAudioContext,
                         outputAudioContext, contextState, isConnected>>
     ELSE disconnectTeardown(disconnects)
  /\ UNCHANGED <<session, sessionState, resolved, opened, connects, connectCalls, onErrorCalls,
                 captured, reactions, sent>>
  /\ LiveFrame

\* disconnect resumes after `await this.session`: s.close(), then the teardown
disconnectAfterSession(d) ==
  /\ BagIn(d, disconnects) /\ d.pc = "session"
  /\ d.s.promise \in resolved
  /\ sessionState' =
       IF sessionState[d.s.promise] = "open"
       THEN [sessionState EXCEPT ![d.s.promise] = "closing"]
       ELSE sessionState
  /\ disconnectTeardown(Resume(disconnects, d))
  /\ UNCHANGED <<isConnecting, session, resolved, opened, connects, connectCalls,
                 disconnectCalls, onErrorCalls, captured, reactions, sent,
                 disconnectedWhileConnecting>>
  /\ LiveFrame

\* disconnect resumes after `await this.inputAudioContext.close()`
disconnectAfterCloseInput(d) ==
  /\ BagIn(d, disconnects) /\ d.pc = "closeInput"
  /\ inputAudioContext' = Null
  /\ disconnectOutput(Resume(disconnects, d))
  /\ UNCHANGED <<isConnecting, session, stream, inputNode, liveStreams, sessionState,
                 resolved, opened, connects, connectCalls, disconnectCalls, onErrorCalls,
                 captured, reactions, sent, disconnectedWhileConnecting>>
  /\ LiveFrame

\* disconnect resumes after `await this.outputAudioContext.close()`
disconnectAfterCloseOutput(d) ==
  /\ BagIn(d, disconnects) /\ d.pc = "closeOutput"
  /\ outputAudioContext' = Null
  /\ isConnected' = FALSE
  /\ disconnects' = Resume(disconnects, d)
  /\ UNCHANGED <<isConnecting, session, stream, inputAudioContext, inputNode,
                 contextState, liveStreams, sessionState, resolved, opened, connects,
                 connectCalls, disconnectCalls, onErrorCalls, captured, reactions,
                 sent, disconnectedWhileConnecting>>
  /\ LiveFrame

\* mutant: the reactions of a promise run last-registered first
runReactions_reversed(queue) ==
  [k \in 1..Len(queue) |-> queue[Len(queue) + 1 - k]]

\* the reactions registered on one promise run in the order of their then() calls
runReactions(queue) == queue

\* the reactions in queue that wait on promise a, and the others
ReactionsOn(queue, a) == SelectSeq(queue, LAMBDA r : r.session = a)

ReactionsNotOn(queue, a) == SelectSeq(queue, LAMBDA r : r.session /= a)

\* inputNode.onaudioprocess: one captured frame, sent through sessionPromise.then
onaudioprocess ==
  /\ inputNode /= Null
  /\ contextState[inputNode.ctx] = "running"
  /\ captured < MaxFrames
  /\ captured' = captured + 1
  /\ LET r == [session |-> inputNode.session, frame |-> captured + 1]
     IN IF inputNode.session \in resolved
        THEN sent' = Append(sent, r) /\ UNCHANGED reactions
        ELSE reactions' = Append(reactions, r) /\ UNCHANGED sent
  /\ UNCHANGED <<isConnecting, session, stream, inputAudioContext, inputNode,
                 contextState, liveStreams, sessionState, resolved, opened, connects,
                 disconnects, connectCalls, disconnectCalls, onErrorCalls, isConnected,
                 disconnectedWhileConnecting, outputAudioContext>>
  /\ LiveFrame

\* the sessionPromise of a resolves, some time after its connection has opened
sessionResolves(a) ==
  /\ a \in opened
  /\ a \notin resolved
  /\ resolved' = resolved \cup {a}
  /\ sent' = sent \o runReactions(ReactionsOn(reactions, a))
  /\ reactions' = ReactionsNotOn(reactions, a)
  /\ UNCHANGED <<isConnecting, session, stream, inputAudioContext, inputNode,
                 contextState, liveStreams, sessionState, opened, connects, disconnects,
                 connectCalls, disconnectCalls, onErrorCalls, isConnected, captured,
                 disconnectedWhileConnecting, outputAudioContext>>
  /\ LiveFrame

\* ------------------------------------------------ LiveAudioChat: mounting
\* the callbacks a parent may pass: a new function identity on a render
Callbacks == 1..MaxCallbacks

\* the values of the systemContext prop
SystemContexts == {"en", "es"}

Props ==
  [onTranscript : Callbacks, onClose : Callbacks, systemContext : SystemContexts]

\* the component is not mounted: its state does not exist
LiveAudioChatUnmounted ==
  /\ mounted = FALSE
  /\ onTranscript = 1
  /\ onClose = 1
  /\ systemContext = "en"
  /\ onTranscriptRef = 1
  /\ onCloseRef = 1
  /\ pendingEffects = {}
  /\ instances = <<>>
  /\ lastDelivery = Null

MountFrame == UNCHANGED <<appVars, chatVars, audioVars, liveVars, mediaVars>>

\* the first render: useRef takes the props of this render, both effects are due
mount(props) ==
  /\ ~mounted /\ instances = <<>>
  /\ mounted' = TRUE
  /\ onTranscript' = props.onTranscript
  /\ onClose' = props.onClose
  /\ systemContext' = props.systemContext
  /\ onTranscriptRef' = props.onTranscript
  /\ onCloseRef' = props.onClose
  /\ pendingEffects' = {"refs", "session"}
  /\ UNCHANGED <<instances, lastDelivery>>
  /\ MountFrame

\* a later render with new props; React runs the effects still pending before
\* it renders again, so none is pending here. An effect is due when one of its
\* dependencies has changed.
rerender(props) ==
  /\ mounted /\ pendingEffects = {}
  /\ onTranscript' = props.onTranscript
  /\ onClose' = props.onClose
  /\ systemContext' = props.systemContext
  /\ pendingEffects' =
       (IF props.onTranscript /= onTranscript \/ props.onClose /= onClose
        THEN {"refs"} ELSE {})
         \cup (IF props.systemContext /= systemContext THEN {"session"} ELSE {})
  /\ UNCHANGED <<mounted, onTranscriptRef, onCloseRef, instances, lastDelivery>>
  /\ MountFrame

\* session.disconnect() on the latest LiveSession
disconnected(list) ==
  IF list = <<>> THEN list
  ELSE [list EXCEPT ![Len(list)].disconnects = @ + 1]

\* the session effect: the clean-up of its previous run, then a new LiveSession
\* and session.connect(instructions)
sessionEffect(list) ==
  Append(disconnected(list),
         [systemContext |-> systemContext, connects |-> 1, disconnects |-> 0])

\* the effects of the latest commit run, in the order of their declaration
flushEffects ==
  /\ mounted /\ pendingEffects /= {}
  /\ "session" \in pendingEffects => Len(instances) < MaxInstances
  /\ IF "refs" \in pendingEffects
     THEN onTranscriptRef' = onTranscript /\ onCloseRef' = onClose
     ELSE UNCHANGED <<onTranscriptRef, onCloseRef>>
  /\ instances' =
       IF "session" \in pendingEffects THEN sessionEffect(instances) ELSE instances
  /\ pendingEffects' = {}
  /\ UNCHANGED <<mounted, onTranscript, onClose, systemContext, lastDelivery>>
  /\ MountFrame

\* the transcript callback the LiveSession was constructed with:
\* (text, role) => onTranscriptRef.current(text, role)
deliverTranscript ==
  /\ instances /= <<>>
  /\ lastDelivery' = [to |-> onTranscriptRef, latest |-> onTranscript]
  /\ UNCHANGED <<mounted, onTranscript, onClose, systemContext, onTranscriptRef,
                 onCloseRef, pendingEffects, instances>>
  /\ MountFrame

\* the parent stops rendering LiveAudioChat: the clean-up of the session effect
unmount ==
  /\ mounted /\ pendingEffects = {}
  /\ mounted' = FALSE
  /\ instances' = disconnected(instances)
  /\ UNCHANGED <<onTranscript, onClose, systemContext, onTranscriptRef, onCloseRef,
                 pendingEffects, lastDelivery>>
  /\ MountFrame

\* ------------------------------------------- createPcmBlob: microphone PCM
\* Float32 samples are numerators over SampleScale: every n / 65536 with
\* |n| <= 65536 is a float in [-1, 1], and its product with 32768 is exact
SampleScale == 65536

\* silence, the smallest steps, half scale and its neighbours, full scale
Samples == {-65536, -65535, -32769, -32768, -3, -2, -1, 0,
            1, 2, 3, 32768, 32769, 65535, 65536}

\* what getChannelData(0) may hold
Frames == UNION {[1..n -> Samples] : n \in 0..MaxSamples}

\* the integer part of num / den (den > 0), towards zero
Trunc(num, den) == IF num >= 0 THEN num \div den ELSE -((-num) \div den)

\* storing a number into an Int16Array element: truncate, then wrap modulo 2^16
ToInt16(num, den) ==
  LET m == Trunc(num, den) % 65536
  IN IF m >= 32768 THEN m - 65536 ELSE m

\* new Uint8Array(int16.buffer): two bytes per sample, low byte first
Uint8Array(int16) ==
  [k \in 1..(2 * Len(int16)) |->
     LET u == int16[(k + 1) \div 2] % 65536
     IN IF k % 2 = 1 THEN u % 256 ELSE u \div 256]

\* btoa of a byte string: the base64 digits as numbers 0..63, and 64 for '='
btoa(bytes) ==
  [j \in 1..(4 * ((Len(bytes) + 2) \div 3)) |->
     LET g == 3 * ((j - 1) \div 4)
         b0 == bytes[g + 1]
         b1 == IF g + 2 <= Len(bytes) THEN bytes[g + 2] ELSE 0
         b2 == IF g + 3 <= Len(bytes) THEN bytes[g + 3] ELSE 0
         p == (j - 1) % 4
     IN IF p = 0 THEN b0 \div 4
        ELSE IF p = 1 THEN (b0 % 4) * 16 + b1 \div 16
        ELSE IF p = 2 THEN (IF g + 2 <= Len(bytes) THEN (b1 % 16) * 4 + b2 \div 64 ELSE 64)
        ELSE (IF g + 3 <= Len(bytes) THEN b2 % 64 ELSE 64)]

\* createPcmBlob; int16 is the Int16Array it fills on the way. The product
\* data[i] * 32768 of the sample n / SampleScale is n / (SampleScale / 32768).
createPcmBlob(data) ==
  LET int16 == [i \in 1..Len(data) |-> ToInt16(data[i], SampleScale \div 32768)]
  IN [int16 |-> int16,
      data |-> btoa(Uint8Array(int16)),
      mimeType |-> "audio/pcm;rate=16000"]

\* onaudioprocess: the frame of the input buffer is encoded
encodeFrame ==
  /\ pcmBlob = Null
  /\ pcmBlob' = createPcmBlob(inputData)
  /\ UNCHANGED <<inputData, img, processed>>
  /\ UNCHANGED <<appVars, chatVars, audioVars, liveVars, mountVars>>

\* ---------------------------------------- processFile: resizing an image
MAX_DIM == 1500

\* img.width and img.height of a decoded image
Dims == {1, 2, 3, 750, 1499, 1500, 1501, 2000, 3000, 4500, 6000}

Images == [width : Dims, height : Dims]

\* canvas.width and canvas.height after the resize block: a canvas dimension is
\* an unsigned long, so the scaled side loses its fraction. The scaled side is
\* taken as the exact quotient; the rounding of MAX_DIM / width to a double is
\* left out.
canvasSize(image) ==
  IF image.width > MAX_DIM \/ image.height > MAX_DIM
  THEN IF image.width > image.height
       THEN [width |-> MAX_DIM, height |-> Trunc(image.height * MAX_DIM, image.width)]
       ELSE [width |-> Trunc(image.width * MAX_DIM, image.height), height |-> MAX_DIM]
  ELSE [width |-> image.width, height |-> image.height]

\* canvas.toDataURL('image/jpeg', 0.85).split(',')[1]: a canvas without pixels
\* gives the URL "data:," and so the empty string
toDataURL(canvas) ==
  IF canvas.width = 0 \/ canvas.height = 0 THEN "" ELSE "jpeg"

\* img.onload: the canvas is sized and drawn, the promise resolves, or rejects
\* when the canvas has no 2d context
imgOnload(hasContext) ==
  /\ img /= Null /\ processed = Null
  /\ processed' =
       IF hasContext
       THEN [ok |-> TRUE, canvas |-> canvasSize(img),
             base64 |-> toDataURL(canvasSize(img)), mimeType |-> "image/jpeg"]
       ELSE [ok |-> FALSE, canvas |-> canvasSize(img)]
  /\ UNCHANGED <<inputData, pcmBlob, img>>
  /\ UNCHANGED <<appVars, chatVars, audioVars, liveVars, mountVars>>

\* no microphone frame and no image is being worked on
MediaIdle ==
  /\ inputData = <<>>
  /\ pcmBlob = Null
  /\ img = Null
  /\ processed = Null

\* ---------------------------------------------------------- specifications
Init ==
  AppInit /\ ChatUnmounted /\ AudioIdle /\ LiveOpened /\ LiveAudioChatUnmounted /\ MediaIdle

\* App alone: AnalysisView and the live session stay as they are
Idle ==
  UNCHANGED chatVars /\ UNCHANGED audioVars /\ UNCHANGED liveVars /\ UNCHANGED mountVars
    /\ UNCHANGED mediaVars

Next ==
  \/ \E f \in Files : handleFileChange(f) /\ Idle
  \/ \E f \in Files : handleDrop(f) /\ Idle
  \/ removeFile /\ Idle
  \/ handleAnalyze /\ Idle
  \/ \E call \in BagToSet(processing), env \in ProcessEnv :
       processFileSettle(call, env) /\ Idle
  \/ \E call \in BagToSet(analyzing), r \in Responses :
       analyzeDocumentSettle(call, r) /\ Idle
  \/ toggleLanguage /\ Idle
  \/ handleReset /\ Idle

Spec == Init /\ [][Next]_vars

\* AnalysisView right after it is mounted for a first successful analysis:
\* fresh state, and the chat-init effect has run once
ChatInit ==
  \E f \in {g \in Files : g.name = 1 /\ g.type = Mime("application", "pdf")},
     lang \in Language :
    /\ file = f
    /\ fileData = processFile(f, "ok").value
    /\ isAnalyzing = FALSE
    /\ result = analyzeDocument(processFile(f, "ok").value, lang, "json").value
    /\ error = Null
    /\ language = lang
    /\ processing = EmptyBag
    /\ analyzing = EmptyBag
    /\ blindToggle = FALSE
    /\ chatSession = Null
    /\ input = ""
    /\ isSending = FALSE
    /\ chatInitializedRef = TRUE
    /\ currentLangRef = lang
    /\ messages = <<Msg("model", Text("chatWaiting", lang), FALSE)>>
    /\ initPending = SetToBag({[data |-> processFile(f, "ok").value, lang |-> lang,
                                 t |-> lang]})
    /\ sendPending = Null
    /\ lastCall = Null
    /\ AudioIdle
    /\ LiveOpened
    /\ LiveAudioChatUnmounted
    /\ MediaIdle

\* the steps AnalysisView takes or sees while it stays mounted
ChatNext ==
  \/ toggleLanguage /\ BagCardinality(initPending) < MaxInits /\ chatInitEffect
       /\ UNCHANGED <<audioVars, liveVars, mountVars, mediaVars>>
  \/ \E call \in BagToSet(analyzing), r \in Responses :
       analyzeDocumentSettle(call, r) /\ chatInitEffect
         /\ UNCHANGED <<audioVars, liveVars, mountVars, mediaVars>>
  \/ \E call \in BagToSet(initPending), o \in SeedOutcomes :
       createDocumentChatSettle(call, o)
  \/ \E v \in Inputs : setInput(v)
  \/ handleSendMessage
  \/ \E o \in SendOutcomes : sendMessageSettle(o)

SpecChat == ChatInit /\ [][ChatNext]_vars

AudioInit ==
  AppInit /\ ChatUnmounted /\ AudioIdle /\ LiveOpened /\ LiveAudioChatUnmounted /\ MediaIdle

AudioNext ==
  \/ \E m \in ServerMessages : onmessage(m)
  \/ playAudioChunkResume
  \/ \E k \in 1..MaxReceived : sourceEnded(k)
  \/ clockAdvances

SpecAudio == AudioInit /\ [][AudioNext]_vars

\* a LiveSession just constructed, with or without an API key in the build
LiveInit ==
  /\ AppInit
  /\ ChatUnmounted
  /\ apiKey \in BOOLEAN
  /\ LiveConstructed
  /\ LiveAudioChatUnmounted
  /\ MediaIdle
  /\ nextStartTime = 0
  /\ outputAudioContext = Null
  /\ currentTime = 0
  /\ sources = {}
  /\ nodes = <<>>
  /\ microtasks = <<>>
  /\ transcripts = <<>>
  /\ received = 0
  /\ stoppedSinceStart = FALSE
  /\ lastInterrupted = FALSE

\* connect() and disconnect() called in any order on one LiveSession, and the
\* steps of the browser and the endpoint
LiveNext ==
  \/ connect
  \/ \E c \in connects : connectAfterResumeInput(c)
  \/ \E c \in connects : connectAfterResumeOutput(c)
  \/ \E c \in connects, granted \in BOOLEAN : connectAfterGetUserMedia(c, granted)
  \/ \E a \in 1..MaxCalls : onopen(a)
  \/ \E a \in 1..MaxCalls : sessionResolves(a)
  \/ \E a \in 1..MaxCalls : onerror(a)
  \/ \E a \in 1..MaxCalls : onclose(a)
  \/ disconnect
  \/ \E d \in BagToSet(disconnects) : disconnectAfterSession(d)
  \/ \E d \in BagToSet(disconnects) : disconnectAfterCloseInput(d)
  \/ \E d \in BagToSet(disconnects) : disconnectAfterCloseOutput(d)

SpecLive == LiveInit /\ [][LiveNext]_vars

\* LiveAudioChat calls connect() once and disconnect() once on each LiveSession
OncePerInstance == connectCalls' <= 1 /\ disconnectCalls' <= 1

\* one LiveSession as LiveAudioChat drives it, with the microphone running
MicNext ==
  \/ connect /\ OncePerInstance
  \/ \E c \in connects : connectAfterResumeInput(c) /\ OncePerInstance
  \/ \E c \in connects : connectAfterResumeOutput(c) /\ OncePerInstance
  \/ \E c \in connects, granted \in BOOLEAN :
       connectAfterGetUserMedia(c, granted) /\ OncePerInstance
  \/ \E a \in 1..MaxCalls : onopen(a) /\ OncePerInstance
  \/ \E a \in 1..MaxCalls : sessionResolves(a) /\ OncePerInstance
  \/ \E a \in 1..MaxCalls : onerror(a) /\ OncePerInstance
  \/ \E a \in 1..MaxCalls : onclose(a) /\ OncePerInstance
  \/ disconnect /\ OncePerInstance
  \/ \E d \in BagToSet(disconnects) : disconnectAfterSession(d) /\ OncePerInstance
  \/ \E d \in BagToSet(disconnects) : disconnectAfterCloseInput(d) /\ OncePerInstance
  \/ \E d \in BagToSet(disconnects) : disconnectAfterCloseOutput(d) /\ OncePerInstance
  \/ onaudioprocess /\ OncePerInstance

SpecMic == LiveInit /\ [][MicNext]_vars

\* one LiveAudioChat from before its mount to after its unmount
MountNext ==
  \/ \E props \in Props : mount(props)
  \/ \E props \in Props : rerender(props)
  \/ flushEffects
  \/ deliverTranscript
  \/ unmount

SpecMount == Init /\ [][MountNext]_vars

\* a microphone frame arrives at onaudioprocess
PcmInit ==
  /\ AppInit /\ ChatUnmounted /\ AudioIdle /\ LiveOpened /\ LiveAudioChatUnmounted
  /\ inputData \in Frames
  /\ pcmBlob = Null
  /\ img = Null
  /\ processed = Null

PcmNext == encodeFrame

SpecPcm == PcmInit /\ [][PcmNext]_vars

\* processFile has read an image file and the Image is about to load
ImageInit ==
  /\ AppInit /\ ChatUnmounted /\ AudioIdle /\ LiveOpened /\ LiveAudioChatUnmounted
  /\ inputData = <<>>
  /\ pcmBlob = Null
  /\ img \in Images
  /\ processed = Null

ImageNext == \E hasContext \in BOOLEAN : imgOnload(hasContext)

SpecImage == ImageInit /\ [][ImageNext]_vars

\* ------------------------------------------------------------- App claims
IsProcessedFrom(data, f) ==
  \E env \in ProcessEnv : processFile(f, env).ok /\ processFile(f, env).value = data

\* C1: whenever fileData is held, it is what processFile produces from the
\* currently selected file, so the data handleAnalyze sends is the current file's.
C1_FileDataOfCurrentFile ==
  fileData /= Null => (file /= Null /\ IsProcessedFrom(fileData, file))

\* C2: result changes to a non-null value only when an analyzeDocument call that
\* is in flight for processed file data resolves with that value, and AnalysisView
\* is rendered only while result and fileData are both non-null.
C2_ResultOnlyFromResolvedAnalysis ==
  /\ [](AnalysisViewRendered => (result /= Null /\ fileData /= Null))
  /\ [][ (result' /= result /\ result' /= Null) =>
           \E call \in BagToSet(analyzing) :
             /\ analyzing' = Resume(analyzing, call)
             /\ analyzeDocument(call.data, call.lang, "json").ok
             /\ analyzeDocument(call.data, call.lang, "json").value = result'
             /\ \E f \in Files : IsProcessedFrom(call.data, f) ]_vars

C2_Witness == AnalysisViewRendered /\ analyzing = EmptyBag /\ result.doc = fileData

\* C3: once a file-processing or analysis failure has been caught (error holds
\* the failure message and isAnalyzing is false), the view shows the text of error.
C3_FailureMessageDisplayed ==
  (error /= Null /\ error.text \in {"errorGeneric", "processFailed"} /\ ~isAnalyzing)
    => ErrorTextRendered

\* C4: when analyzeDocument rejects, performAnalysis ends with isAnalyzing false,
\* error non-null and result exactly as it was before.
C4_RejectKeepsResult ==
  [][ \A call \in BagToSet(analyzing), r \in Responses :
        ( /\ ~analyzeDocument(call.data, call.lang, r).ok
          /\ analyzeDocumentSettle(call, r) )
        => (isAnalyzing' = FALSE /\ error' /= Null /\ result' = result) ]_vars

C4_Witness ==
  /\ error /= Null /\ error.text = "errorGeneric"
  /\ ~isAnalyzing /\ analyzing = EmptyBag /\ result /= Null

\* C7: no analyzeDocument request is started while another one is in flight.
C7_AnalysesSequential == BagCardinality(analyzing) <= 1

\* C8: with every toggle made while a result was displayed, once nothing is
\* pending and no error is set, the displayed result is in the selected language.
C8_ResultInSelectedLanguage ==
  ( /\ AnalysisViewRendered /\ ~blindToggle
    /\ analyzing = EmptyBag /\ processing = EmptyBag /\ error = Null )
    => result.lang = language

C9_Types ==
  { Mime("application", "pdf"), Mime("image", "png"), Mime("image", "jpeg"),
    Mime("image", "jpg"), Mime("image", "webp") }

\* C9: the selected file always has one of the five accepted MIME types, and
\* choosing or dropping a file of another type leaves file null and error set.
C9_OnlyValidTypesSelected ==
  /\ [](file /= Null => file.type \in C9_Types)
  /\ [][ \A f \in Files :
           (f.type \notin C9_Types /\ (handleFileChange(f) \/ handleDrop(f)))
             => (file' = Null /\ error' /= Null) ]_vars

C9_Witness == file = Null /\ error /= Null /\ error.text = "invalidType"

\* C17: a held result always comes with its file data, so exactly one of the
\* upload view and the result view is rendered.
C17_OneViewRendered ==
  /\ result /= Null => fileData /= Null
  /\ AnalysisViewRendered /= UploadViewRendered

\* C18: isAnalyzing is true exactly while an analyzeDocument request is pending.
C18_IsAnalyzingTracksAnalysis == isAnalyzing <=> analyzing /= EmptyBag

\* C19: when processFile rejects, handleAnalyze sets error and returns: no
\* analyzeDocument call is started and isAnalyzing, result and fileData stay.
C19_ProcessFailureOnlySetsError ==
  [][ \A call \in BagToSet(processing), env \in ProcessEnv :
        ( /\ ~processFile(call.file, env).ok
          /\ processFileSettle(call, env) )
        => ( /\ error' /= Null
             /\ analyzing' = analyzing
             /\ isAnalyzing' = isAnalyzing
             /\ result' = result
             /\ fileData' = fileData ) ]_vars

C19_Witness ==
  /\ error = AppText("processFailed")
  /\ file /= Null
  /\ fileData = Null
  /\ processing = EmptyBag /\ analyzing = EmptyBag

\* the user actions offered inside the upload area
UploadAreaAction ==
  \/ \E f \in Files : handleFileChange(f)
  \/ \E f \in Files : handleDrop(f)
  \/ removeFile
  \/ handleAnalyze

\* C20: while isAnalyzing is true no action of the upload area changes file.
C20_FileFixedWhileAnalyzing ==
  [][ (isAnalyzing /\ UploadAreaAction) => file' = file ]_vars

\* ----------------------------------------------------------- audio claims
\* a chunk with no interruption between its arrival and its start
Uninterrupted(n) == ~n.interrupted

\* C5: chunks decoded with no interruption in between are scheduled back-to-back
\* in arrival order: each starts no earlier than the clock, a chunk starts at the
\* end of the previous one when that end is still ahead and at the clock
\* otherwise, so the playback intervals neither overlap nor change order.
C5_ChunksBackToBack ==
  /\ \A k \in 1..Len(nodes) :
       Uninterrupted(nodes[k]) => nodes[k].when >= nodes[k].at
  /\ \A k \in 1..(Len(nodes) - 1) :
       LET a == nodes[k]
           b == nodes[k + 1]
       IN (Uninterrupted(a) /\ Uninterrupted(b) /\ b.chained)
            => /\ a.arrived <= b.arrived
               /\ b.when >= a.when + a.duration
               /\ (a.when + a.duration >= b.arrived => b.when = a.when + a.duration)
               /\ (a.when + a.duration < b.arrived => b.when = b.arrived)

C5_Witness ==
  /\ Len(nodes) >= 2
  /\ Uninterrupted(nodes[1]) /\ Uninterrupted(nodes[2])
  /\ nodes[2].chained
  /\ nodes[1].at > 0
  /\ nodes[2].when = nodes[1].when + nodes[1].duration
  /\ nodes[2].when > nodes[2].at

\* C6: once a message carrying serverContent.interrupted has been handled,
\* decode included, every source scheduled so far is stopped or has ended, the
\* sources set is empty and nextStartTime is 0.
C6_PlaybackStopsOnInterruption ==
  (lastInterrupted /\ microtasks = <<>>)
    => /\ sources = {}
       /\ nextStartTime = 0
       /\ \A k \in 1..Len(nodes) : nodes[k].stopped \/ NodeEnd(nodes[k]) <= currentTime

\* ------------------------------------------------------------ chat claims
\* C10: after createDocumentChat has rejected and the chatError message is shown,
\* a non-blank question submitted through handleSendMessage is sent to the model.
C10_QuestionAfterChatErrorIsSent ==
  (lastCall /= Null /\ trim(lastCall.text) /= "" /\ lastCall.afterChatError)
    => lastCall.sent

\* C11: once no createDocumentChat call is pending, chatSession (when there is
\* one) was created for the selected language, and the message list starts with
\* the ready or error greeting of the initialisation for that language.
C11_ChatOfSelectedLanguage ==
  initPending = EmptyBag
    => /\ chatSession /= Null => chatSession.lang = language
       /\ messages /= <<>>
       /\ messages[1].text.text \in {"chatReady", "chatError"}
       /\ messages[1].text.lang = language

\* the user message of the pending handleSendMessage call is in the list
QuestionListed ==
  \E k \in 1..Len(messages) :
    messages[k] = Msg("user", Text(sendPending.message, "user"), FALSE)

\* C21: an accepted handleSendMessage call appends exactly one user message with
\* the sent text; when its request settles exactly one model message with
\* non-empty text is appended (flagged isError only for chatConnectError),
\* isSending is false afterwards, and the model message comes after the user
\* message of its call in the list.
C21_ReplyFollowsItsQuestion ==
  [][ /\ (handleSendMessage /\ handleSendMessageAccepts(input))
          => /\ messages' = Append(messages, Msg("user", Text(input, "user"), FALSE))
             /\ trim(input) /= ""
      /\ (\E o \in SendOutcomes : sendMessageSettle(o))
          => /\ Len(messages') = Len(messages) + 1
             /\ SubSeq(messages', 1, Len(messages)) = messages
             /\ messages'[Len(messages')].role = "model"
             /\ messages'[Len(messages')].text.text /= ""
             /\ messages'[Len(messages')].isError
                  <=> messages'[Len(messages')].text.text = "chatConnectError"
             /\ ~isSending'
             /\ QuestionListed ]_vars

\* ----------------------------------------------------------- media claims
\* C22: createPcmBlob encodes every sample of [-1, 1] without wrap-around: a
\* positive sample is not encoded as a negative value nor a negative one as a
\* positive value, silence is encoded as 0, a larger sample never gets a
\* smaller code, and full scale (1.0) is not negative.
C22_SamplesKeepSignAndOrder ==
  pcmBlob /= Null
    => /\ Len(pcmBlob.int16) = Len(inputData)
       /\ \A i \in 1..Len(inputData) :
            /\ inputData[i] > 0 => pcmBlob.int16[i] >= 0
            /\ inputData[i] < 0 => pcmBlob.int16[i] <= 0
            /\ inputData[i] = 0 => pcmBlob.int16[i] = 0
            /\ inputData[i] = SampleScale => pcmBlob.int16[i] >= 0
       /\ \A i, j \in 1..Len(inputData) :
            inputData[i] <= inputData[j] => pcmBlob.int16[i] <= pcmBlob.int16[j]

\* C23: the canvas processFile draws an image on is at most 1500 by 1500; it has
\* the image's own size when that fits; otherwise its larger side is 1500 and
\* the other side is the image's side scaled by the same factor, cut to whole
\* pixels and at least 1.
C23_ImageSizeBounded ==
  (processed /= Null /\ processed.ok)
    => LET c == processed.canvas
       IN /\ c.width <= MAX_DIM /\ c.height <= MAX_DIM
          /\ (img.width <= MAX_DIM /\ img.height <= MAX_DIM)
               => (c.width = img.width /\ c.height = img.height)
          /\ (img.width > MAX_DIM \/ img.height > MAX_DIM)
               => /\ (img.width >= img.height)
                       => /\ c.width = MAX_DIM
                          /\ c.height * img.width <= img.height * MAX_DIM
                          /\ img.height * MAX_DIM < (c.height + 1) * img.width
                  /\ (img.height >= img.width)
                       => /\ c.height = MAX_DIM
                          /\ c.width * img.height <= img.width * MAX_DIM
                          /\ img.width * MAX_DIM < (c.width + 1) * img.height
          /\ c.width >= 1 /\ c.height >= 1

\* ------------------------------------------------------ live session claims
\* attempt a is in progress (connect is awaiting) or its session is live
ActiveAttempt(a) ==
  \/ \E c \in connects : c.attempt = a
  \/ a \in DOMAIN sessionState /\ sessionState[a] \in {"connecting", "open"}

OpenContexts == {c \in DOMAIN contextState : contextState[c] /= "closed"}

\* C12: whatever the order of connect() and disconnect() calls, at most one
\* connection attempt or live session exists, and at most one microphone
\* stream is live.
C12_AtMostOneConnection ==
  /\ Cardinality({a \in 1..MaxCalls : ActiveAttempt(a)}) <= 1
  /\ Cardinality(liveStreams) <= 1

\* the sendRealtimeInput calls made on session a, in call order
SentTo(a) == SelectSeq(sent, LAMBDA r : r.session = a)

\* C14: a frame is captured and sent only for a session whose onopen has run,
\* and the frames a session is sent are in the order of their capture.
C14_FramesAfterOpenInOrder ==
  /\ captured > 0 => opened /= {}
  /\ \A k \in 1..Len(reactions) : reactions[k].session \in opened
  /\ \A k \in 1..Len(sent) : sent[k].session \in opened
  /\ \A a \in opened : \A k \in 1..(Len(SentTo(a)) - 1) :
       SentTo(a)[k].frame < SentTo(a)[k + 1].frame

C14_Witness ==
  /\ Len(sent) >= 2
  /\ sent[1].session \in resolved
  /\ captured = Len(sent)

\* C15: without an API key every connect() calls onError once and changes
\* nothing else: isConnecting stays false and no context, stream or session
\* exists.
C15_NoKeyOnlyReportsError ==
  /\ [](~apiKey =>
          /\ ~isConnecting
          /\ session = Null /\ stream = Null
          /\ inputAudioContext = Null /\ outputAudioContext = Null
          /\ contextState = <<>> /\ liveStreams = {} /\ sessionState = <<>>
          /\ connects = {}
          /\ onErrorCalls = connectCalls)
  /\ [][ (~apiKey /\ connect) => onErrorCalls' = onErrorCalls + 1 ]_vars

C15_Witness == ~apiKey /\ connectCalls >= 2 /\ onErrorCalls = connectCalls

\* no step of connect, disconnect, the browser or the endpoint is pending
LiveQuiescent ==
  /\ connects = {}
  /\ disconnects = EmptyBag
  /\ \A a \in DOMAIN sessionState : sessionState[a] \in {"open", "closed"}

\* C16: when disconnect() ran while connect() was still awaiting and every
\* pending step has finished, the microphone stream is stopped and stream is
\* null, no session is open and no audio context is left allocated.
C16_CleanedUpAfterEarlyDisconnect ==
  (disconnectedWhileConnecting /\ LiveQuiescent)
    => /\ stream = Null
       /\ liveStreams = {}
       /\ \A a \in DOMAIN sessionState : sessionState[a] = "closed"
       /\ OpenContexts = {}
       /\ inputAudioContext = Null /\ outputAudioContext = Null

====
